---- MODULE Spec2Model ----
(***************************************************************************)
(* Model of src/lib/jcashBEConstruct.ts: the JCashBEConstruct constructor  *)
(* (one action per builder call, in program order) and the public method   *)
(* getFunctionConstruct, which may be called again once the constructor    *)
(* has returned.                                                           *)
(*                                                                         *)
(* An optional JavaScript value (string | undefined, object | undefined)   *)
(* is a set with at most one element: {} is undefined, {v} is v.           *)
(***************************************************************************)
EXTENDS Integers, Sequences, FiniteSets, TLC

VARIABLES props, envENV, secretOut, pc, thrown, stage, vpc, securityGroup,
          subnetGroup, auroraCluster, endpoint, functions, graphqlAPILambda,
          restApiInstance

vars == <<props, envENV, secretOut, pc, thrown, stage, vpc, securityGroup,
          subnetGroup, auroraCluster, endpoint, functions, graphqlAPILambda,
          restApiInstance>>

inputs == <<props, envENV, secretOut>>

(***************************************************************************)
(* props            the constructor's props (line 40); only stage is read  *)
(* envENV           process.env.ENV (line 157)                             *)
(* secretOut        the secret the ServerlessCluster exposes (line 119)    *)
(* pc               the constructor statement to run next (lines 43-108)   *)
(* thrown           an exception has left the constructor                  *)
(* stage            this.stage (line 38)                                   *)
(* vpc, securityGroup, subnetGroup                                         *)
(*                  the constructor's locals of lines 45-47                *)
(* auroraCluster    this.auroraCluster (line 36)                           *)
(* endpoint         the InterfaceVpcEndpoint child (line 130)              *)
(* functions        the NodejsFunction children, in creation order         *)
(* graphqlAPILambda the constructor's local of line 57 (the function's id) *)
(* restApiInstance  this.restApiInstance (line 34)                         *)
(***************************************************************************)

----------------------------------------------------------------------------
(* Bounds *)

\* total number of compute units built by getFunctionConstruct in one run
MaxFunctions == 3

\* longest request path (in segments) routed through the API
MaxPathLen == 3

----------------------------------------------------------------------------
(* Inputs *)

\* props.stage: undefined, the empty string, or a stage name
StageInputs == { {}, {""}, {"dev"}, {"prod"} }

\* process.env.ENV: unset, or set
EnvInputs == { {}, {"production"} }

\* ServerlessCluster.secret is declared optional (ISecret | undefined)
SecretInputs == { {}, {[secretArn |-> "arn:aws:secretsmanager:secret:JCashAuroraClusterSecret"]} }

\* arguments of later getFunctionConstruct calls
Ids == {"fnA", "fnB"}
Handlers == {"handler", "other"}
Entries == {"handler"}

\* the optional override sets (NodejsFunctionProps) a caller passes
OptionSets ==
    << [functionName |-> "custom-name"],
       [memorySize |-> 512],
       [timeout |-> 60],
       [environment |-> [FOO |-> "bar"]],
       [bundling |-> [minify |-> FALSE, sourceMap |-> FALSE, nodeModules |-> <<>>]] >>

\* options?: 0 is "not supplied"
OptionChoices == 0 .. Len(OptionSets)

OptionsOf(i) == IF i = 0 THEN {} ELSE {OptionSets[i]}

----------------------------------------------------------------------------
(* JavaScript helpers *)

\* a || d on an optional string: undefined and '' are falsy
Or(a, d) == IF a = {} \/ a = {""} THEN d ELSE CHOOSE v \in a : TRUE

\* `${a}` on an optional string
Interp(a) == IF a = {} THEN "undefined" ELSE CHOOSE v \in a : TRUE

\* { ...a, ...b }: own keys of b replace those of a, shallowly
Spread(a, b) ==
    [k \in (DOMAIN a) \cup (DOMAIN b) |-> IF k \in DOMAIN b THEN b[k] ELSE a[k]]

\* { ...a, ...options } where options may be undefined
SpreadOpt(a, o) == IF o = {} THEN a ELSE Spread(a, CHOOSE v \in o : TRUE)

\* p.k, undefined when p has no own key k
Get(p, k) == IF k \in DOMAIN p THEN {p[k]} ELSE {}

----------------------------------------------------------------------------
(* The builders: each returns the construct it creates, as the record of   *)
(* the properties it was given.                                            *)

ChangedStageOrDefault(p) == IF p = {} THEN "dev" ELSE CHOOSE v \in p : TRUE

\* this.stage = props.stage || 'dev'
StageOrDefault(p) == Or(p, "dev")

\* the subnets a Vpc lays out: one per subnetConfiguration entry per AZ
SubnetsOf(cfg, maxAzs) ==
    { [az |-> a, name |-> cfg[i].name, subnetType |-> cfg[i].subnetType] :
        a \in 1 .. maxAzs, i \in 1 .. Len(cfg) }

generateVPC ==
    [ id |-> "JCashVPC",
      cidr |-> "10.0.0.0/20",
      natGateways |-> 0,
      maxAzs |-> 2,
      enableDnsHostnames |-> TRUE,
      enableDnsSupport |-> TRUE,
      subnets |-> SubnetsOf(<< [cidrMask |-> 22, name |-> "public", subnetType |-> "PUBLIC"],
                               [cidrMask |-> 22, name |-> "private", subnetType |-> "PRIVATE_ISOLATED"] >>,
                            2) ]

\* { subnetType: T } selects the subnets of that type
SelectSubnets(v, subnetType) == { s \in v.subnets : s.subnetType = subnetType }

\* securityGroup.addIngressRule(peer, port, description)
addIngressRule(sg, peer, port, description) ==
    [sg EXCEPT !.ingress = @ \cup {[peer |-> peer, port |-> port, description |-> description]}]

generateSecurityGroup(v) ==
    addIngressRule([ id |-> "JCash-Security-Group",
                     vpc |-> v.id,
                     securityGroupName |-> "JCash-Security-Group",
                     ingress |-> {} ],
                   [kind |-> "securityGroup", ref |-> "JCash-Security-Group"],
                   "ALL_TRAFFIC",
                   "allow internal security group access")

ChangedGenerateSubnetGroup(v) ==
    [ id |-> "JCash-RDS-Subnet-Group",
      vpc |-> v.id,
      subnetGroupName |-> "JCash-RDS-Subnet-Group",
      subnets |-> SelectSubnets(v, "PUBLIC"),
      removalPolicy |-> "DESTROY",
      description |-> "private isolated subnet group for db" ]

generateSubnetGroup(v) ==
    [ id |-> "JCash-RDS-Subnet-Group",
      vpc |-> v.id,
      subnetGroupName |-> "JCash-RDS-Subnet-Group",
      subnets |-> SelectSubnets(v, "PRIVATE_ISOLATED"),
      removalPolicy |-> "DESTROY",
      description |-> "private isolated subnet group for db" ]

generateAuroraCluster(v, sng, sg, stg, sec) ==
    [ id |-> "JCashAuroraCluster",
      engine |-> "AURORA_POSTGRESQL",
      parameterGroup |-> "default.aurora-postgresql10",
      defaultDatabaseName |-> "JCashDB-" \o Interp(stg),
      enableDataApi |-> TRUE,
      vpc |-> v.id,
      subnetGroup |-> sng.id,
      securityGroups |-> <<sg.id>>,
      removalPolicy |-> "DESTROY",
      secret |-> sec ]

getVPCEndpoint(v, sg) ==
    [ id |-> "secrets-manager",
      service |-> "SECRETS_MANAGER",
      port |-> 443,
      vpc |-> v.id,
      privateDnsEnabled |-> TRUE,
      subnets |-> SelectSubnets(v, "PRIVATE_ISOLATED"),
      securityGroups |-> <<sg.id>> ]

\* this.auroraCluster.secret?.secretArn || ''
SecretArn(cluster) ==
    IF cluster.secret = {} THEN "" ELSE Or({(CHOOSE s \in cluster.secret : TRUE).secretArn}, "")

getLambdaRolePolicy(cluster) ==
    [ effect |-> "Allow",
      actions |-> <<"secretsmanager:GetSecretValue">>,
      resources |-> <<SecretArn(cluster)>> ]

\* the property object handed to new NodejsFunction
FunctionPropsOf(handler, entry, options, stg, env, cluster) ==
    SpreadOpt([ runtime |-> "NODEJS_14_X",
                functionName |-> "jcash-" \o handler \o "-" \o Interp(stg),
                entry |-> "../packages/lambda/src/" \o entry \o ".ts",
                handler |-> handler,
                timeout |-> 30,
                memorySize |-> 256,
                depsLockFilePath |-> "../yarn.lock",
                environment |-> [ ENV |-> Or(env, "development"),
                                  SECRET_ID |-> SecretArn(cluster),
                                  AWS_NODEJS_CONNECTION_REUSE_ENABLED |-> "1" ],
                bundling |-> [minify |-> TRUE, sourceMap |-> TRUE, nodeModules |-> <<>>] ],
              options)

\* new NodejsFunction(this, id, {...}); lambda.addToRolePolicy(policy)
getFunctionConstruct(id, handler, entry, options, stg, env, cluster) ==
    LET p == FunctionPropsOf(handler, entry, options, stg, env, cluster) IN
    [ id |-> id,
      runtime |-> p.runtime,
      functionName |-> p.functionName,
      entry |-> p.entry,
      handler |-> p.handler,
      timeout |-> p.timeout,
      memorySize |-> p.memorySize,
      environment |-> p.environment,
      bundling |-> p.bundling,
      vpc |-> Get(p, "vpc"),
      securityGroups |-> IF "securityGroups" \in DOMAIN p THEN p.securityGroups ELSE <<>>,
      policies |-> <<getLambdaRolePolicy(cluster)>> ]

\* the options the constructor passes for graphqlAPILambda
GraphqlOptions(stg) ==
    [ functionName |-> "jcash-graphqlAPILambda-" \o Interp(stg),
      bundling |-> [ minify |-> TRUE, sourceMap |-> TRUE,
                     nodeModules |-> <<"readable-stream", "@prisma/client">> ] ]

----------------------------------------------------------------------------
(* The constructor, statement by statement *)

Steps == << "stage", "vpc", "securityGroup", "subnetGroup", "auroraCluster",
            "vpcEndpoint", "function", "restApi", "done" >>

ChangedStepAfter(s) ==
    CASE s = "stage" -> "vpc"
      [] s = "vpc" -> "securityGroup"
      [] s = "securityGroup" -> "subnetGroup"
      [] s = "subnetGroup" -> "function"
      [] s = "function" -> "auroraCluster"
      [] s = "auroraCluster" -> "vpcEndpoint"
      [] s = "vpcEndpoint" -> "restApi"
      [] s = "restApi" -> "done"

\* the statement that follows statement s in the constructor body
StepAfter(s) ==
    CASE s = "stage" -> "vpc"
      [] s = "vpc" -> "securityGroup"
      [] s = "securityGroup" -> "subnetGroup"
      [] s = "subnetGroup" -> "auroraCluster"
      [] s = "auroraCluster" -> "vpcEndpoint"
      [] s = "vpcEndpoint" -> "function"
      [] s = "function" -> "restApi"
      [] s = "restApi" -> "done"

The(o) == CHOOSE v \in o : TRUE

Init ==
    /\ props \in [stage : StageInputs]
    /\ envENV \in EnvInputs
    /\ secretOut \in SecretInputs
    /\ pc = "stage"
    /\ thrown = FALSE
    /\ stage = {}
    /\ vpc = {}
    /\ securityGroup = {}
    /\ subnetGroup = {}
    /\ auroraCluster = {}
    /\ endpoint = {}
    /\ functions = <<>>
    /\ graphqlAPILambda = {}
    /\ restApiInstance = {}

Running(s) == pc = s /\ ~thrown

\* line 43
SetStage ==
    /\ Running("stage")
    /\ stage' = {StageOrDefault(props.stage)}
    /\ pc' = StepAfter(pc)
    /\ UNCHANGED <<inputs, thrown, vpc, securityGroup, subnetGroup, auroraCluster,
                   endpoint, functions, graphqlAPILambda, restApiInstance>>

\* line 45
BuildVPC ==
    /\ Running("vpc")
    /\ vpc' = {generateVPC}
    /\ pc' = StepAfter(pc)
    /\ UNCHANGED <<inputs, thrown, stage, securityGroup, subnetGroup, auroraCluster,
                   endpoint, functions, graphqlAPILambda, restApiInstance>>

\* line 46
BuildSecurityGroup ==
    /\ Running("securityGroup")
    /\ IF vpc = {}
       THEN thrown' = TRUE /\ UNCHANGED <<securityGroup, pc>>
       ELSE /\ securityGroup' = {generateSecurityGroup(The(vpc))}
            /\ pc' = StepAfter(pc)
            /\ UNCHANGED thrown
    /\ UNCHANGED <<inputs, stage, vpc, subnetGroup, auroraCluster,
                   endpoint, functions, graphqlAPILambda, restApiInstance>>

\* line 47
BuildSubnetGroup ==
    /\ Running("subnetGroup")
    /\ IF vpc = {}
       THEN thrown' = TRUE /\ UNCHANGED <<subnetGroup, pc>>
       ELSE /\ subnetGroup' = {generateSubnetGroup(The(vpc))}
            /\ pc' = StepAfter(pc)
            /\ UNCHANGED thrown
    /\ UNCHANGED <<inputs, stage, vpc, securityGroup, auroraCluster,
                   endpoint, functions, graphqlAPILambda, restApiInstance>>

\* lines 49-53
BuildAuroraCluster ==
    /\ Running("auroraCluster")
    /\ IF vpc = {} \/ subnetGroup = {} \/ securityGroup = {}
       THEN thrown' = TRUE /\ UNCHANGED <<auroraCluster, pc>>
       ELSE /\ auroraCluster' = {generateAuroraCluster(The(vpc), The(subnetGroup),
                                                       The(securityGroup), stage, secretOut)}
            /\ pc' = StepAfter(pc)
            /\ UNCHANGED thrown
    /\ UNCHANGED <<inputs, stage, vpc, securityGroup, subnetGroup,
                   endpoint, functions, graphqlAPILambda, restApiInstance>>

\* line 55
BuildVPCEndpoint ==
    /\ Running("vpcEndpoint")
    /\ IF vpc = {} \/ securityGroup = {}
       THEN thrown' = TRUE /\ UNCHANGED <<endpoint, pc>>
       ELSE /\ endpoint' = {getVPCEndpoint(The(vpc), The(securityGroup))}
            /\ pc' = StepAfter(pc)
            /\ UNCHANGED thrown
    /\ UNCHANGED <<inputs, stage, vpc, securityGroup, subnetGroup, auroraCluster,
                   functions, graphqlAPILambda, restApiInstance>>

\* lines 57-94; reading this.auroraCluster.secret of an unassigned
\* this.auroraCluster raises a TypeError
BuildFunction ==
    /\ Running("function")
    /\ IF auroraCluster = {}
       THEN thrown' = TRUE /\ UNCHANGED <<functions, graphqlAPILambda, pc>>
       ELSE /\ functions' = Append(functions,
                    getFunctionConstruct("graphqlAPILambda", "handler", "handler",
                                         {GraphqlOptions(stage)}, stage, envENV,
                                         The(auroraCluster)))
            /\ graphqlAPILambda' = {"graphqlAPILambda"}
            /\ pc' = StepAfter(pc)
            /\ UNCHANGED thrown
    /\ UNCHANGED <<inputs, stage, vpc, securityGroup, subnetGroup, auroraCluster,
                   endpoint, restApiInstance>>

\* new LambdaRestApi(this, 'JCashAPI', {...}) with proxy: false: only the
\* root resource, no method; handler is the default integration
LambdaRestApi(handler, stg) ==
    [ id |-> "JCashAPI",
      restApiName |-> "JCash API",
      description |-> "The JCash API Service",
      handler |-> handler,
      proxy |-> FALSE,
      stageName |-> Or(stg, "dev"),
      resources |-> {<<>>},
      methods |-> {} ]

\* parent.addResource(pathPart)
addResource(api, parent, pathPart) ==
    [api EXCEPT !.resources = @ \cup {Append(parent, pathPart)}]

ChangedAddProxy(api, parent, anyMethod) ==
    [api EXCEPT !.resources = @ \cup {Append(parent, "{proxy+}")},
                !.methods = @ \cup {[path |-> Append(parent, "{proxy+}"),
                                     httpMethod |-> "GET",
                                     integration |-> api.handler]}]

\* parent.addProxy({ anyMethod }): the greedy child {proxy+}, with an ANY
\* method on the default integration when anyMethod is set
addProxy(api, parent, anyMethod) ==
    [api EXCEPT !.resources = @ \cup {Append(parent, "{proxy+}")},
                !.methods = @ \cup IF anyMethod
                                   THEN {[path |-> Append(parent, "{proxy+}"),
                                          httpMethod |-> "ANY",
                                          integration |-> api.handler]}
                                   ELSE {}]

\* lines 96-108
BuildRestApi ==
    /\ Running("restApi")
    /\ IF graphqlAPILambda = {}
       THEN thrown' = TRUE /\ UNCHANGED <<restApiInstance, pc>>
       ELSE /\ restApiInstance' =
                 {addProxy(addResource(LambdaRestApi(The(graphqlAPILambda), stage),
                                       <<>>, "api"),
                           <<"api">>, TRUE)}
            /\ pc' = StepAfter(pc)
            /\ UNCHANGED thrown
    /\ UNCHANGED <<inputs, stage, vpc, securityGroup, subnetGroup, auroraCluster,
                   endpoint, functions, graphqlAPILambda>>

BuilderSteps == { "vpc", "securityGroup", "subnetGroup", "auroraCluster",
                  "vpcEndpoint", "function", "restApi" }

ChangedThrow ==
    /\ pc \in BuilderSteps
    /\ ~thrown
    /\ thrown' = TRUE
    /\ vpc' = {}
    /\ securityGroup' = {}
    /\ subnetGroup' = {}
    /\ auroraCluster' = {}
    /\ endpoint' = {}
    /\ functions' = <<>>
    /\ UNCHANGED <<inputs, pc, stage, graphqlAPILambda, restApiInstance>>

\* a resource construct raises while the constructor is at a builder call:
\* the constructor has no try/catch, the exception leaves it as it stands
Throw ==
    /\ pc \in BuilderSteps
    /\ ~thrown
    /\ thrown' = TRUE
    /\ UNCHANGED <<inputs, pc, stage, vpc, securityGroup, subnetGroup, auroraCluster,
                   endpoint, functions, graphqlAPILambda, restApiInstance>>

\* a caller invokes the public getFunctionConstruct on the built construct
CallGetFunctionConstruct ==
    /\ Running("done")
    /\ Len(functions) < MaxFunctions
    /\ \E id \in Ids, handler \in Handlers, entry \in Entries, o \in OptionChoices :
          functions' = Append(functions,
                              getFunctionConstruct(id, handler, entry, OptionsOf(o),
                                                   stage, envENV, The(auroraCluster)))
    /\ UNCHANGED <<inputs, pc, thrown, stage, vpc, securityGroup, subnetGroup,
                   auroraCluster, endpoint, graphqlAPILambda, restApiInstance>>

Next ==
    \/ SetStage
    \/ BuildVPC
    \/ BuildSecurityGroup
    \/ BuildSubnetGroup
    \/ BuildAuroraCluster
    \/ BuildVPCEndpoint
    \/ BuildFunction
    \/ BuildRestApi
    \/ Throw
    \/ CallGetFunctionConstruct

Spec == Init /\ [][Next]_vars

----------------------------------------------------------------------------
(* What the composed graph means *)

\* a subnet has a route to the public internet through an internet gateway
\* (public tier) or through a NAT gateway (private tier, when one exists)
HasInternetRoute(v, s) ==
    \/ s.subnetType = "PUBLIC"
    \/ s.subnetType = "PRIVATE_WITH_NAT" /\ v.natGateways > 0

\* a resource path pattern matches a request path; a trailing {proxy+}
\* stands for one or more segments
Matches(pattern, path) ==
    IF Len(pattern) > 0 /\ pattern[Len(pattern)] = "{proxy+}"
    THEN /\ Len(path) >= Len(pattern)
         /\ \A i \in 1 .. (Len(pattern) - 1) : path[i] = pattern[i]
    ELSE path = pattern

\* the integrations a request reaches
Route(api, httpMethod, path) ==
    { m.integration : m \in { x \in api.methods :
                                /\ Matches(x.path, path)
                                /\ x.httpMethod \in {"ANY", httpMethod} } }

HttpMethods == {"GET", "POST", "OPTIONS"}
Segments == {"api", "x"}
RECURSIVE PathsOfLen(_)
PathsOfLen(n) ==
    IF n = 0 THEN {<<>>}
    ELSE { Append(p, s) : p \in PathsOfLen(n - 1), s \in Segments }
Paths == UNION { PathsOfLen(n) : n \in 0 .. MaxPathLen }

\* suffix test on strings
HasSuffix(name, suffix) ==
    /\ Len(name) >= Len(suffix)
    /\ SubSeq(name, Len(name) - Len(suffix) + 1, Len(name)) = suffix

\* the resources currently in the construct's scope, by the step that makes them
Created ==
    {s \in BuilderSteps :
        \/ s = "vpc" /\ vpc # {}
        \/ s = "securityGroup" /\ securityGroup # {}
        \/ s = "subnetGroup" /\ subnetGroup # {}
        \/ s = "auroraCluster" /\ auroraCluster # {}
        \/ s = "vpcEndpoint" /\ endpoint # {}
        \/ s = "function" /\ functions # <<>>
        \/ s = "restApi" /\ restApiInstance # {}}

----------------------------------------------------------------------------
(* Properties *)

Fns == { functions[i] : i \in 1 .. Len(functions) }

\* the stage the caller asked for: the supplied one, "dev" when none is supplied
RequestedStage == IF props.stage = {} THEN "dev" ELSE The(props.stage)

\* the same, with the empty string counted as not supplied
EffectiveStage == IF props.stage \in {{}, {""}} THEN "dev" ELSE The(props.stage)

\* the builder steps that precede statement s in the order Network, Security
\* Boundary, Data Tier (subnet group, cluster), Private Connectivity, Compute,
\* API Front Door
BuiltBefore(s) ==
    CASE s = "stage" -> {}
      [] s = "vpc" -> {}
      [] s = "securityGroup" -> {"vpc"}
      [] s = "subnetGroup" -> {"vpc", "securityGroup"}
      [] s = "auroraCluster" -> {"vpc", "securityGroup", "subnetGroup"}
      [] s = "vpcEndpoint" -> {"vpc", "securityGroup", "subnetGroup", "auroraCluster"}
      [] s = "function" -> {"vpc", "securityGroup", "subnetGroup", "auroraCluster",
                            "vpcEndpoint"}
      [] s = "restApi" -> {"vpc", "securityGroup", "subnetGroup", "auroraCluster",
                           "vpcEndpoint", "function"}
      [] s = "done" -> BuilderSteps

\* C1: every compute unit carries exactly one statement, Allow
\* secretsmanager:GetSecretValue, on exactly one resource, which is the
\* cluster's secret ARN and is never the empty string nor a wildcard, also
\* when the cluster exposes no secret.
C1_OneStatementOnTheSecret ==
    \A f \in Fns :
        /\ Len(f.policies) = 1
        /\ f.policies[1].effect = "Allow"
        /\ f.policies[1].actions = <<"secretsmanager:GetSecretValue">>
        /\ Len(f.policies[1].resources) = 1
        /\ f.policies[1].resources[1] \notin {"", "*"}
        /\ \A sec \in The(auroraCluster).secret :
              f.policies[1].resources[1] = sec.secretArn

\* C2: every compute unit is attached to the VPC and the security group of
\* the data tier cluster, so the one security group is referenced by the
\* cluster, the endpoint and every function.
C2_ComputeInClusterNetwork ==
    /\ auroraCluster # {} =>
          The(auroraCluster).securityGroups = <<The(securityGroup).id>>
    /\ endpoint # {} =>
          The(endpoint).securityGroups = <<The(securityGroup).id>>
    /\ \A f \in Fns :
          /\ f.vpc = {The(auroraCluster).vpc}
          /\ \E i \in 1 .. Len(f.securityGroups) :
                f.securityGroups[i] = The(securityGroup).id

\* C3 as stated: for every supplied stage S (S = "dev" when none is
\* supplied) the database is "JCashDB-S", the function whose handler is
\* "handler" is named "jcash-handler-S", and the API stage is S.
C3_AsStated ==
    pc = "done" =>
        /\ The(auroraCluster).defaultDatabaseName = "JCashDB-" \o RequestedStage
        /\ \A f \in Fns : f.id = "graphqlAPILambda" /\ f.handler = "handler" =>
              f.functionName = "jcash-handler-" \o RequestedStage
        /\ The(restApiInstance).stageName = RequestedStage

\* C3 amended: with S the supplied stage, or "dev" when the stage is absent
\* or the empty string, the database is "JCashDB-S", the API stage is S, the
\* constructor's function (handler "handler") is named
\* "jcash-graphqlAPILambda-S" by its functionName override, and
\* "jcash-<handler>-S" is the name of a function built without such an override.
C3_StageNames ==
    /\ auroraCluster # {} =>
          The(auroraCluster).defaultDatabaseName = "JCashDB-" \o EffectiveStage
    /\ restApiInstance # {} => The(restApiInstance).stageName = EffectiveStage
    /\ \A f \in Fns :
          /\ f.id = "graphqlAPILambda" =>
                /\ f.handler = "handler"
                /\ f.functionName = "jcash-graphqlAPILambda-" \o EffectiveStage
          /\ f.id # "graphqlAPILambda" /\ f.functionName # "custom-name" =>
                f.functionName = "jcash-" \o f.handler \o "-" \o EffectiveStage

C3_Witness ==
    /\ pc = "done"
    /\ props.stage = {"prod"}
    /\ The(auroraCluster).defaultDatabaseName = "JCashDB-prod"
    /\ functions[1].functionName = "jcash-graphqlAPILambda-prod"
    /\ The(restApiInstance).stageName = "prod"

\* the explicit names a composition with stage stg gives its resources
NamedResources(stg) ==
    LET v == generateVPC
        sg == generateSecurityGroup(v)
        sng == generateSubnetGroup(v)
        cl == generateAuroraCluster(v, sng, sg, {stg}, {})
    IN  [ securityGroupName |-> sg.securityGroupName,
          subnetGroupName |-> sng.subnetGroupName,
          defaultDatabaseName |-> cl.defaultDatabaseName,
          functionName |-> getFunctionConstruct("graphqlAPILambda", "handler", "handler",
                                                {GraphqlOptions({stg})}, {stg}, {},
                                                cl).functionName,
          restApiName |-> LambdaRestApi("graphqlAPILambda", {stg}).restApiName,
          stageName |-> LambdaRestApi("graphqlAPILambda", {stg}).stageName ]

\* the explicit names of the composition at hand
NamesHere ==
    [ securityGroupName |-> The(securityGroup).securityGroupName,
      subnetGroupName |-> The(subnetGroup).subnetGroupName,
      defaultDatabaseName |-> The(auroraCluster).defaultDatabaseName,
      functionName |-> functions[1].functionName,
      restApiName |-> The(restApiInstance).restApiName,
      stageName |-> The(restApiInstance).stageName ]

OtherStages == {"dev", "prod", "staging"}

\* C4: every explicitly named resource carries the stage as a suffix, so a
\* composition with another stage gives no corresponding resource the same name.
C4_NamesCarryStage ==
    pc = "done" =>
        /\ \A k \in DOMAIN NamesHere : HasSuffix(NamesHere[k], The(stage))
        /\ \A s2 \in OtherStages \ stage :
              \A k \in DOMAIN NamesHere : NamedResources(s2)[k] # NamesHere[k]

\* C5: whatever override set is passed, the environment of the compute unit
\* holds ENV (default "development"), SECRET_ID (the secret reference) and
\* AWS_NODEJS_CONNECTION_REUSE_ENABLED = "1".
C5_EnvironmentInjected ==
    \A f \in Fns :
        /\ {"ENV", "SECRET_ID", "AWS_NODEJS_CONNECTION_REUSE_ENABLED"}
              \subseteq DOMAIN f.environment
        /\ f.environment["ENV"] = Or(envENV, "development")
        /\ f.environment["SECRET_ID"] = SecretArn(The(auroraCluster))
        /\ f.environment["AWS_NODEJS_CONNECTION_REUSE_ENABLED"] = "1"

\* C6 as stated: once a builder step has failed, or the constructor has
\* returned, the scope holds either none of the resources or all of them.
C6_AllOrNothing ==
    (thrown \/ pc = "done") => Created \in {{}, BuilderSteps}

\* C6 amended: a failing builder step ends the constructor where it stands;
\* the resources of the steps before it stay in the scope (nothing is rolled
\* back, no later step runs), and the scope holds the full set exactly when
\* the constructor has run to completion.
C6_NoRollback ==
    /\ thrown => pc \in BuilderSteps /\ Created = BuiltBefore(pc)
    /\ Created = BuilderSteps <=> pc = "done"

C6_Witness ==
    /\ thrown
    /\ pc = "auroraCluster"
    /\ Created = {"vpc", "securityGroup", "subnetGroup"}

\* C7: the subnet group and the secrets-manager endpoint select only
\* private-isolated subnets of the VPC, the VPC has no NAT gateway, and so
\* none of the selected subnets has a route to the public internet.
C7_PrivateIsolatedOnly ==
    /\ \A v \in vpc : v.natGateways = 0
    /\ \A g \in subnetGroup \cup endpoint :
          /\ g.subnets # {}
          /\ \A s \in g.subnets :
                /\ s \in The(vpc).subnets
                /\ s.subnetType = "PRIVATE_ISOLATED"
                /\ ~HasInternetRoute(The(vpc), s)

C7_Witness ==
    /\ subnetGroup # {}
    /\ endpoint # {}
    /\ Cardinality(The(subnetGroup).subnets) = 2
    /\ Cardinality(The(endpoint).subnets) = 2
    /\ \E s \in The(vpc).subnets : HasInternetRoute(The(vpc), s)

\* C9 as stated: every request whose path starts with the segment api,
\* the path /api itself included, reaches exactly the graphqlAPILambda function.
C9_AsStated ==
    \A api \in restApiInstance :
        \A m \in HttpMethods, p \in Paths :
            Len(p) >= 1 /\ p[1] = "api" => Route(api, m, p) = graphqlAPILambda

\* C9 amended: every request for /api/<one or more segments>, with any
\* method, reaches exactly the graphqlAPILambda function; /api itself (and
\* every path outside /api) has no method and reaches no function.
C9_ProxyBelowApi ==
    \A api \in restApiInstance :
        \A m \in HttpMethods, p \in Paths :
            Route(api, m, p) =
                IF Len(p) >= 2 /\ p[1] = "api" THEN {"graphqlAPILambda"} ELSE {}

C9_Witness ==
    /\ restApiInstance # {}
    /\ functions[1].id = "graphqlAPILambda"
    /\ Route(The(restApiInstance), "POST", <<"api", "x">>) = {"graphqlAPILambda"}
    /\ Route(The(restApiInstance), "GET", <<"api", "x", "api">>) = {"graphqlAPILambda"}
    /\ Route(The(restApiInstance), "GET", <<"api">>) = {}

\* C10: the builders run in the order Network, Security Boundary, subnet
\* group, cluster, Private Connectivity, Compute, API Front Door; a builder
\* runs only when the handles it consumes exist and it refers to them;
\* this.auroraCluster is assigned before any function reads it, and the
\* stage is fixed before any name is interpolated.
C10_LinearOrder ==
    /\ Created = BuiltBefore(pc)
    /\ Created # {} => stage = {EffectiveStage}
    /\ \A c \in auroraCluster :
          /\ c.vpc = The(vpc).id
          /\ c.subnetGroup = The(subnetGroup).id
          /\ c.securityGroups = <<The(securityGroup).id>>
          /\ c.defaultDatabaseName = "JCashDB-" \o The(stage)
    /\ \A e \in endpoint :
          /\ auroraCluster # {}
          /\ e.vpc = The(vpc).id
          /\ e.securityGroups = <<The(securityGroup).id>>
    /\ \A f \in Fns :
          /\ endpoint # {}
          /\ f.policies[1].resources[1] = SecretArn(The(auroraCluster))
          /\ ~HasSuffix(f.functionName, "undefined")
    /\ \A api \in restApiInstance :
          /\ graphqlAPILambda = {functions[1].id}
          /\ api.handler = functions[1].id
          /\ api.stageName = The(stage)

C10_Witness ==
    /\ pc = "done"
    /\ ~thrown
    /\ Created = BuilderSteps
    /\ Len(functions) = 2

====
